---- MODULE Spec2Model ----
(***************************************************************************)
(* A model of @tokenring-ai/checkpoint: the AgentCheckpointService, its    *)
(* single-selection provider registry, a storage provider written as the   *)
(* README's CustomProvider, the host agent whose state is captured and     *)
(* replaced, the autoCheckpoint hook, the package's start, and the         *)
(* /checkpoint and /history chat commands.                                 *)
(*                                                                         *)
(* Every async method of the service is two steps: the synchronous part up *)
(* to its await (the call is then in `pending`), and the resumption, in    *)
(* which the storage backend answers and the code after the await runs.    *)
(* The hook and the commands await the service's methods; a command that   *)
(* asks the user for a selection is suspended until the answer.            *)
(***************************************************************************)
EXTENDS Naturals, Sequences, FiniteSets, Bags, TLC

\* ------------------------------------------------------------------ bounds

\* Checkpoints stored over a run, by all providers together.
MaxCheckpoints == 2

\* Calls suspended on the storage backend at once, where callers overlap.
MaxPending == 2

\* ---------------------------------------------------------------- universes

ProviderNames == {"memory", "database"}
Providers == {"p1", "p2"}
\* The (name, provider) pairs registerProvider is called with: "memory" is
\* registered twice, with different providers, and "p2" under two names.
Registrations == {<<"memory", "p1">>, <<"memory", "p2">>, <<"database", "p2">>}
\* The pairs registered where each name has one provider.
OverlapRegistrations == {<<"memory", "p1">>, <<"database", "p2">>}
CheckpointNames == {"before", "after"}
Ids == 1..MaxCheckpoints

NoItem == "undefined"
NoName == "null"
NoResponse == 0
Null == [null |-> TRUE]
AgentId == "agent1"

VARIABLES
  items,           \* registry: name -> provider instance, or NoItem
  activeItemName,  \* registry: the selected name, or NoName
  checkpoints,     \* provider instance -> its Map of stored checkpoints, in insertion order
  nextId,          \* the next identifier a storage backend issues
  agent,           \* the host agent's state
  now,             \* the clock generateCheckpoint reads
  pending,         \* bag of calls suspended on the storage backend
  lastCall,        \* what the step just taken was, and how it ended
  saved,           \* history: id -> the save call the id was returned to
  registered       \* history: the names registerProvider was called with

vars == <<items, activeItemName, checkpoints, nextId, agent, now, pending, lastCall, saved, registered>>

\* ------------------------------------------------------------ the host agent

\* The five fields a checkpoint's state carries.
AgentStateOf(a) ==
  [toolsEnabled |-> a.toolsEnabled,
   hooksEnabled |-> a.hooksEnabled,
   agentState   |-> a.agentState,
   chatMessages |-> a.chatMessages,
   responseId   |-> a.responseId]

\* agent.generateCheckpoint(): AgentCheckpointData
generateCheckpoint(a, time) ==
  [agentId   |-> a.id,
   createdAt |-> time,
   state     |-> [toolsEnabled |-> a.toolsEnabled,
                  hooksEnabled |-> a.hooksEnabled,
                  agentState   |-> a.agentState,
                  chatMessages |-> a.chatMessages,
                  responseId   |-> a.responseId]]

\* agent.restoreCheckpoint(checkpoint): every state field is overwritten.
restoreCheckpoint(a, checkpoint) ==
  [id           |-> a.id,
   toolsEnabled |-> checkpoint.state.toolsEnabled,
   hooksEnabled |-> checkpoint.state.hooksEnabled,
   agentState   |-> checkpoint.state.agentState,
   chatMessages |-> checkpoint.state.chatMessages,
   responseId   |-> checkpoint.state.responseId]

\* ------------------------------------------------- the storage provider

\* storeCheckpoint whose Map holds one record: the new one takes the place of
\* what was stored.
storeCheckpointReplaces(store, data, id) ==
  <<[id        |-> id,
     name      |-> data.name,
     agentId   |-> data.agentId,
     createdAt |-> data.createdAt,
     state     |-> data.state]>>

\* storeCheckpoint: this.checkpoints.set(id, {...data, id})
storeCheckpoint(store, data, id) ==
  Append(store, [id        |-> id,
                 name      |-> data.name,
                 agentId   |-> data.agentId,
                 createdAt |-> data.createdAt,
                 state     |-> data.state])

\* retrieveCheckpoint that answers with the newest record whatever the id.
retrieveCheckpointNewest(store, id) ==
  IF Len(store) > 0 THEN store[Len(store)] ELSE Null

\* retrieveCheckpoint: this.checkpoints.get(id) || null
retrieveCheckpoint(store, id) ==
  IF \E i \in 1..Len(store) : store[i].id = id
    THEN store[CHOOSE i \in 1..Len(store) : store[i].id = id]
    ELSE Null

\* listCheckpoints that returns the stored records as they are, state included.
providerListCheckpointsWhole(store) == store

\* listCheckpoints: Array.from(this.checkpoints.values()).map(cp => ({id, name, agentId, createdAt}))
providerListCheckpoints(store) ==
  [i \in 1..Len(store) |->
     [id        |-> store[i].id,
      name      |-> store[i].name,
      agentId   |-> store[i].agentId,
      createdAt |-> store[i].createdAt]]

\* ------------------------------------------------------------ the registry

\* register that makes the first item registered the active one.
registerActivatesFirst(its, active, name, item) ==
  [items |-> [its EXCEPT ![name] = item],
   activeItemName |-> IF active = NoName THEN name ELSE active]

\* register that replaces the whole map by the one new entry.
registerReplacesAll(its, active, name, item) ==
  [items |-> [n \in ProviderNames |-> IF n = name THEN item ELSE NoItem],
   activeItemName |-> active]

\* register(name, item): insert or overwrite; the selection is untouched.
register(its, active, name, item) ==
  [items |-> [its EXCEPT ![name] = item], activeItemName |-> active]

\* setEnabledItem that keeps an earlier selection.
setEnabledItemKeepsFirst(its, active, name) ==
  IF its[name] = NoItem
    THEN [error |-> "ProviderNotFoundError", activeItemName |-> active]
    ELSE [error |-> "none", activeItemName |-> IF active = NoName THEN name ELSE active]

\* setEnabledItem that fails for an unregistered name, but only after it has
\* dropped the selection.
setEnabledItemClears(its, active, name) ==
  IF its[name] = NoItem
    THEN [error |-> "ProviderNotFoundError", activeItemName |-> NoName]
    ELSE [error |-> "none", activeItemName |-> name]

\* setEnabledItem that selects the name without looking it up.
setEnabledItemUnchecked(its, active, name) ==
  [error |-> "none", activeItemName |-> name]

\* setEnabledItem(name): the new selection, or the failure.
setEnabledItem(its, active, name) ==
  IF its[name] = NoItem
    THEN [error |-> "ProviderNotFoundError", activeItemName |-> active]
    ELSE [error |-> "none", activeItemName |-> name]

\* getActiveItemName()
getActiveItemName(active) == active

\* getActiveItem(): the selected item, or the failure.
getActiveItem(its, active) ==
  IF active = NoName
    THEN [error |-> "NoActiveProviderError", item |-> NoItem]
    ELSE [error |-> "none", item |-> its[active]]

\* getAllItemNames()
getAllItemNames(its) == {n \in ProviderNames : its[n] # NoItem}

\* ------------------------------------------------------- step descriptions

NoCall ==
  [op |-> "none", phase |-> "none", error |-> "none", raised |-> "none", provider |-> NoItem,
   name |-> "", id |-> 0, items |-> <<>>,
   invoked |-> FALSE, captured |-> FALSE, replaced |-> FALSE, lines |-> <<>>]

Step(op, phase, error) == [NoCall EXCEPT !.op = op, !.phase = phase, !.error = error]

\* A call suspended on the backend: the provider it was issued to, its
\* arguments, and (history, for a save) the agent's state and the time when
\* it was made.
Call(op, provider, name, id, data, s, at) ==
  [op |-> op, provider |-> provider, name |-> name, id |-> id, data |-> data, s |-> s, at |-> at]

\* Save calls suspended on the backend (they count towards MaxCheckpoints).
PendingSaves ==
  BagCardinality([c \in {x \in BagToSet(pending) : x.op = "saveAgentCheckpoint"} |-> pending[c]])

\* The caller awaits each call before it makes the next: no call is made
\* while another is suspended on the backend.
CanSuspend == pending = EmptyBag

\* Callers that do not wait for each other: calls overlap, up to MaxPending
\* of them suspended on the backend at once.
CanOverlap == BagCardinality(pending) < MaxPending

\* ------------------------------------------------------------------ Init

Init ==
  /\ items = [n \in ProviderNames |-> NoItem]
  /\ activeItemName = NoName
  /\ checkpoints = [p \in Providers |-> <<>>]
  /\ nextId = 1
  /\ agent = [id |-> AgentId, toolsEnabled |-> {"A", "B"}, hooksEnabled |-> {"autoCheckpoint"},
              agentState |-> [k |-> 0], chatMessages |-> <<>>, responseId |-> NoResponse]
  /\ now = 0
  /\ pending = EmptyBag
  /\ lastCall = NoCall
  /\ saved = <<>>
  /\ registered = {}

\* ------------------------------------------------------- registry actions

\* registerProvider = this.checkpointProviders.register
registerProvider(name, provider) ==
  LET r == register(items, activeItemName, name, provider) IN
  /\ items' = r.items
  /\ activeItemName' = r.activeItemName
  /\ registered' = registered \cup {name}
  /\ lastCall' = [Step("registerProvider", "returned", "none") EXCEPT !.name = name, !.provider = provider]
  /\ UNCHANGED <<checkpoints, nextId, agent, now, pending, saved>>

\* setActiveProviderName = this.checkpointProviders.setEnabledItem
setActiveProviderName(name) ==
  LET r == setEnabledItem(items, activeItemName, name) IN
  /\ activeItemName' = r.activeItemName
  /\ lastCall' = [Step("setActiveProviderName", IF r.error = "none" THEN "returned" ELSE "threw", r.error)
                    EXCEPT !.name = name]
  /\ UNCHANGED <<items, checkpoints, nextId, agent, now, pending, saved, registered>>

\* ----------------------------------------------------- AgentCheckpointService

\* saveRequest that passes the captured checkpoint on without the name.
saveRequestNoName(its, active, a, time, name) ==
  LET p == getActiveItem(its, active) IN
  IF p.error # "none"
    THEN [error |-> p.error, provider |-> NoItem, data |-> Null,
          captured |-> FALSE, invoked |-> FALSE]
    ELSE [error |-> "none", provider |-> p.item,
          data |-> [name |-> ""] @@ generateCheckpoint(a, time),
          captured |-> TRUE, invoked |-> TRUE]

\* saveRequest that falls back to a registered provider when none is active.
saveRequestFallback(its, active, a, time, name) ==
  LET p == getActiveItem(its, active)
      names == getAllItemNames(its) IN
  IF p.error # "none" /\ names = {}
    THEN [error |-> p.error, provider |-> NoItem, data |-> Null,
          captured |-> FALSE, invoked |-> FALSE]
    ELSE [error |-> "none",
          provider |-> IF p.error = "none" THEN p.item ELSE its[CHOOSE n \in names : TRUE],
          data |-> [name |-> name] @@ generateCheckpoint(a, time),
          captured |-> TRUE, invoked |-> TRUE]

\* saveAgentCheckpoint up to its await: getActiveItem() is evaluated first, then
\* the argument {name, ...agent.generateCheckpoint()}, then storeCheckpoint is called.
saveRequest(its, active, a, time, name) ==
  LET p == getActiveItem(its, active) IN
  IF p.error # "none"
    THEN [error |-> p.error, provider |-> NoItem, data |-> Null,
          captured |-> FALSE, invoked |-> FALSE]
    ELSE [error |-> "none", provider |-> p.item,
          data |-> [name |-> name] @@ generateCheckpoint(a, time),
          captured |-> TRUE, invoked |-> TRUE]

\* restoreAgentCheckpoint up to its await: getActiveItem().retrieveCheckpoint(id)
restoreRequest(its, active, id) ==
  LET p == getActiveItem(its, active) IN
  IF p.error # "none"
    THEN [error |-> p.error, provider |-> NoItem, invoked |-> FALSE]
    ELSE [error |-> "none", provider |-> p.item, invoked |-> TRUE]

\* restoreContinuation without its throw: a missing record ends the call quietly.
restoreContinuationSilent(a, checkpoint) ==
  IF checkpoint = Null
    THEN [error |-> "none", agent |-> a, replaced |-> FALSE]
    ELSE [error |-> "none", agent |-> restoreCheckpoint(a, checkpoint), replaced |-> TRUE]

\* restoreContinuation that reports success without calling agent.restoreCheckpoint.
restoreContinuationNoReplace(a, checkpoint) ==
  IF checkpoint = Null
    THEN [error |-> "CheckpointNotFoundError", agent |-> a, replaced |-> FALSE]
    ELSE [error |-> "none", agent |-> a, replaced |-> TRUE]

\* restoreAgentCheckpoint after its await: the not-found check, then the replace.
restoreContinuation(a, checkpoint) ==
  IF checkpoint = Null
    THEN [error |-> "CheckpointNotFoundError", agent |-> a, replaced |-> FALSE]
    ELSE [error |-> "none", agent |-> restoreCheckpoint(a, checkpoint), replaced |-> TRUE]

\* listCheckpoints up to its await: getActiveItem().listCheckpoints()
listRequest(its, active) ==
  LET p == getActiveItem(its, active) IN
  IF p.error # "none"
    THEN [error |-> p.error, provider |-> NoItem, invoked |-> FALSE]
    ELSE [error |-> "none", provider |-> p.item, invoked |-> TRUE]

\* await that wraps the backend's failure in an error of the service's own.
awaitRejectedWrapped(raised) ==
  IF raised = "none" THEN "none" ELSE "CheckpointServiceError"

\* `await provider.method(...)` with no try/catch around it: the error the
\* backend's promise rejects with is the error the method's promise rejects with.
awaitRejected(raised) == raised

\* saveAgentCheckpoint that, finding no provider active, selects a registered
\* one before it goes on.
saveAgentCheckpointSelects(name) ==
  LET names == getAllItemNames(items)
      active == IF activeItemName = NoName /\ names # {}
                  THEN CHOOSE n \in names : TRUE
                  ELSE activeItemName
      r == saveRequest(items, active, agent, now, name) IN
  /\ activeItemName' = active
  /\ IF r.error # "none"
       THEN /\ lastCall' = [Step("saveAgentCheckpoint", "threw", r.error)
                              EXCEPT !.captured = r.captured, !.invoked = r.invoked]
            /\ UNCHANGED pending
       ELSE /\ nextId + PendingSaves <= MaxCheckpoints
            /\ pending' = pending (+) SetToBag({Call("saveAgentCheckpoint", r.provider, name, 0,
                                                     r.data, AgentStateOf(agent), now)})
            /\ lastCall' = [Step("saveAgentCheckpoint", "suspended", "none")
                              EXCEPT !.captured = r.captured, !.invoked = r.invoked]
  /\ UNCHANGED <<items, checkpoints, nextId, agent, now, saved, registered>>

\* saveAgentCheckpoint(name, agent), to the await
saveAgentCheckpoint(name) ==
  LET r == saveRequest(items, activeItemName, agent, now, name) IN
  /\ IF r.error # "none"
       THEN /\ lastCall' = [Step("saveAgentCheckpoint", "threw", r.error)
                              EXCEPT !.captured = r.captured, !.invoked = r.invoked]
            /\ UNCHANGED pending
       ELSE /\ nextId + PendingSaves <= MaxCheckpoints
            /\ pending' = pending (+) SetToBag({Call("saveAgentCheckpoint", r.provider, name, 0,
                                                     r.data, AgentStateOf(agent), now)})
            /\ lastCall' = [Step("saveAgentCheckpoint", "suspended", "none")
                              EXCEPT !.captured = r.captured, !.invoked = r.invoked]
  /\ UNCHANGED <<items, activeItemName, checkpoints, nextId, agent, now, saved, registered>>

\* saveAgentCheckpoint that captures the agent's state when the backend gets to
\* the call, not when the call is made.
saveAgentCheckpointResumeLate(c) ==
  /\ c.op = "saveAgentCheckpoint"
  /\ BagIn(c, pending)
  /\ pending' = pending (-) SetToBag({c})
  /\ \E ok \in BOOLEAN :
       IF ok
         THEN /\ checkpoints' = [checkpoints EXCEPT ![c.provider] =
                                   storeCheckpoint(@, [name |-> c.name] @@ generateCheckpoint(agent, now), nextId)]
              /\ nextId' = nextId + 1
              /\ saved' = Append(saved, [provider |-> c.provider, name |-> c.name, s |-> c.s, at |-> c.at])
              /\ lastCall' = [Step("saveAgentCheckpoint", "returned", "none")
                                EXCEPT !.id = nextId]
         ELSE /\ lastCall' = [Step("saveAgentCheckpoint", "threw", awaitRejected("StorageError"))
                                EXCEPT !.raised = "StorageError"]
              /\ UNCHANGED <<checkpoints, nextId, saved>>
  /\ UNCHANGED <<items, activeItemName, agent, now, registered>>

\* saveAgentCheckpoint that looks the active provider up again when the call
\* is resumed, and stores there.
saveAgentCheckpointResumeActiveNow(c) ==
  /\ c.op = "saveAgentCheckpoint"
  /\ BagIn(c, pending)
  /\ pending' = pending (-) SetToBag({c})
  /\ \E ok \in BOOLEAN :
       IF ok
         THEN /\ checkpoints' = [checkpoints EXCEPT ![getActiveItem(items, activeItemName).item] =
                                   storeCheckpoint(@, c.data, nextId)]
              /\ nextId' = nextId + 1
              /\ saved' = Append(saved, [provider |-> c.provider, name |-> c.name, s |-> c.s, at |-> c.at])
              /\ lastCall' = [Step("saveAgentCheckpoint", "returned", "none")
                                EXCEPT !.id = nextId]
         ELSE /\ lastCall' = [Step("saveAgentCheckpoint", "threw", awaitRejected("StorageError"))
                                EXCEPT !.raised = "StorageError"]
              /\ UNCHANGED <<checkpoints, nextId, saved>>
  /\ UNCHANGED <<items, activeItemName, agent, now, registered>>

\* saveAgentCheckpoint, resumed: the backend stored the checkpoint and issued
\* its id, or failed; the id is returned, the failure rethrown.
saveAgentCheckpointResume(c) ==
  /\ c.op = "saveAgentCheckpoint"
  /\ BagIn(c, pending)
  /\ pending' = pending (-) SetToBag({c})
  /\ \E ok \in BOOLEAN :
       IF ok
         THEN /\ checkpoints' = [checkpoints EXCEPT ![c.provider] = storeCheckpoint(@, c.data, nextId)]
              /\ nextId' = nextId + 1
              /\ saved' = Append(saved, [provider |-> c.provider, name |-> c.name, s |-> c.s, at |-> c.at])
              /\ lastCall' = [Step("saveAgentCheckpoint", "returned", "none")
                                EXCEPT !.id = nextId]
         ELSE /\ lastCall' = [Step("saveAgentCheckpoint", "threw", awaitRejected("StorageError"))
                                EXCEPT !.raised = "StorageError"]
              /\ UNCHANGED <<checkpoints, nextId, saved>>
  /\ UNCHANGED <<items, activeItemName, agent, now, registered>>

\* restoreAgentCheckpoint(id, agent), to the await
restoreAgentCheckpoint(id) ==
  LET r == restoreRequest(items, activeItemName, id) IN
  /\ IF r.error # "none"
       THEN /\ lastCall' = [Step("restoreAgentCheckpoint", "threw", r.error)
                              EXCEPT !.id = id, !.invoked = r.invoked]
            /\ UNCHANGED pending
       ELSE /\ pending' = pending (+) SetToBag({Call("restoreAgentCheckpoint", r.provider, "", id,
                                                     Null, Null, 0)})
            /\ lastCall' = [Step("restoreAgentCheckpoint", "suspended", "none")
                              EXCEPT !.id = id, !.invoked = r.invoked]
  /\ UNCHANGED <<items, activeItemName, checkpoints, nextId, agent, now, saved, registered>>

\* restoreAgentCheckpoint, resumed: the backend answered with the record or
\* null, or failed.
restoreAgentCheckpointResume(c) ==
  /\ c.op = "restoreAgentCheckpoint"
  /\ BagIn(c, pending)
  /\ pending' = pending (-) SetToBag({c})
  /\ \E ok \in BOOLEAN :
       IF ok
         THEN LET r == restoreContinuation(agent, retrieveCheckpoint(checkpoints[c.provider], c.id)) IN
              /\ agent' = r.agent
              /\ lastCall' = [Step("restoreAgentCheckpoint",
                                    IF r.error = "none" THEN "returned" ELSE "threw", r.error)
                                EXCEPT !.id = c.id, !.replaced = r.replaced]
         ELSE /\ lastCall' = [Step("restoreAgentCheckpoint", "threw", awaitRejected("StorageError"))
                                EXCEPT !.id = c.id, !.raised = "StorageError"]
              /\ UNCHANGED agent
  /\ UNCHANGED <<items, activeItemName, checkpoints, nextId, now, saved, registered>>

\* listCheckpoints(), to the await
listCheckpoints ==
  LET r == listRequest(items, activeItemName) IN
  /\ IF r.error # "none"
       THEN /\ lastCall' = [Step("listCheckpoints", "threw", r.error) EXCEPT !.invoked = r.invoked]
            /\ UNCHANGED pending
       ELSE /\ pending' = pending (+) SetToBag({Call("listCheckpoints", r.provider, "", 0,
                                                     Null, Null, 0)})
            /\ lastCall' = [Step("listCheckpoints", "suspended", "none")
                              EXCEPT !.invoked = r.invoked]
  /\ UNCHANGED <<items, activeItemName, checkpoints, nextId, agent, now, saved, registered>>

\* listCheckpoints, resumed
listCheckpointsResume(c) ==
  /\ c.op = "listCheckpoints"
  /\ BagIn(c, pending)
  /\ pending' = pending (-) SetToBag({c})
  /\ \E ok \in BOOLEAN :
       IF ok
         THEN lastCall' = [Step("listCheckpoints", "returned", "none")
                             EXCEPT !.items = providerListCheckpoints(checkpoints[c.provider])]
         ELSE lastCall' = [Step("listCheckpoints", "threw", awaitRejected("StorageError"))
                             EXCEPT !.raised = "StorageError"]
  /\ UNCHANGED <<items, activeItemName, checkpoints, nextId, agent, now, saved, registered>>

\* ------------------------------------------------------ the agent at work

\* The agent handles its first input: the conversation grows, the response
\* pointer moves, its tools, hooks and custom state change, and time passes.
HandleInput ==
  /\ agent.chatMessages = <<>>
  /\ agent' = [agent EXCEPT !.toolsEnabled = {"C"},
                            !.hooksEnabled = {},
                            !.agentState = [k |-> 1],
                            !.chatMessages = <<"before">>,
                            !.responseId = 1]
  /\ now' = 1
  /\ lastCall' = NoCall
  /\ UNCHANGED <<items, activeItemName, checkpoints, nextId, pending, saved, registered>>

Next ==
  \/ \E reg \in Registrations : registerProvider(reg[1], reg[2])
  \/ \E n \in ProviderNames : setActiveProviderName(n)
  \/ \E n \in CheckpointNames : CanSuspend /\ saveAgentCheckpoint(n)
  \/ \E c \in BagToSet(pending) : saveAgentCheckpointResume(c)
  \/ \E id \in Ids : CanSuspend /\ restoreAgentCheckpoint(id)
  \/ \E c \in BagToSet(pending) : restoreAgentCheckpointResume(c)
  \/ CanSuspend /\ listCheckpoints
  \/ \E c \in BagToSet(pending) : listCheckpointsResume(c)
  \/ HandleInput

Spec == Init /\ [][Next]_vars

\* ------------------------------------------- the service, called and awaited

\* await service.saveAgentCheckpoint(name, agent), from the call to its outcome;
\* ok is whether the backend stores the checkpoint or fails.
saveAgentCheckpointAwaited(its, active, stores, nid, a, time, name, ok) ==
  LET r == saveRequest(its, active, a, time, name) IN
  IF r.error # "none"
    THEN [error |-> r.error, raised |-> "none", id |-> 0, provider |-> NoItem,
          checkpoints |-> stores, nextId |-> nid]
    ELSE IF ~ok
      THEN [error |-> awaitRejected("StorageError"), raised |-> "StorageError", id |-> 0,
            provider |-> r.provider, checkpoints |-> stores, nextId |-> nid]
      ELSE [error |-> "none", raised |-> "none", id |-> nid, provider |-> r.provider,
            checkpoints |-> [stores EXCEPT ![r.provider] = storeCheckpoint(@, r.data, nid)],
            nextId |-> nid + 1]

\* await service.restoreAgentCheckpoint(id, agent), from the call to its outcome
restoreAgentCheckpointAwaited(its, active, stores, a, id, ok) ==
  LET r == restoreRequest(its, active, id) IN
  IF r.error # "none"
    THEN [error |-> r.error, raised |-> "none", agent |-> a, replaced |-> FALSE]
    ELSE IF ~ok
      THEN [error |-> awaitRejected("StorageError"), raised |-> "StorageError",
            agent |-> a, replaced |-> FALSE]
      ELSE LET k == restoreContinuation(a, retrieveCheckpoint(stores[r.provider], id)) IN
           [error |-> k.error, raised |-> "none", agent |-> k.agent, replaced |-> k.replaced]

\* await service.listCheckpoints(), from the call to its outcome
listCheckpointsAwaited(its, active, stores, ok) ==
  LET r == listRequest(its, active) IN
  IF r.error # "none"
    THEN [error |-> r.error, raised |-> "none", items |-> <<>>]
    ELSE IF ~ok
      THEN [error |-> awaitRejected("StorageError"), raised |-> "StorageError", items |-> <<>>]
      ELSE [error |-> "none", raised |-> "none", items |-> providerListCheckpoints(stores[r.provider])]

\* ------------------------------------------------------- hooks/autoCheckpoint

\* afterAgentInputComplete that saves under a label of its own, not the message.
afterAgentInputCompleteOwnLabel(message, storage, ok) ==
  LET r == saveAgentCheckpointAwaited(items, activeItemName, checkpoints, nextId, agent, now,
                                      "autoCheckpoint", ok) IN
  /\ pending = EmptyBag
  /\ nextId <= MaxCheckpoints
  /\ IF storage
       THEN /\ checkpoints' = r.checkpoints
            /\ nextId' = r.nextId
            /\ saved' = IF r.id # 0
                          THEN Append(saved, [provider |-> r.provider, name |-> "autoCheckpoint",
                                              s |-> AgentStateOf(agent), at |-> now])
                          ELSE saved
            /\ lastCall' = [Step("afterAgentInputComplete",
                                  IF r.error = "none" THEN "returned" ELSE "threw", r.error)
                              EXCEPT !.raised = r.raised, !.name = message, !.id = r.id,
                                     !.invoked = TRUE]
       ELSE /\ lastCall' = [Step("afterAgentInputComplete", "returned", "none")
                              EXCEPT !.name = message]
            /\ UNCHANGED <<checkpoints, nextId, saved>>
  /\ UNCHANGED <<items, activeItemName, agent, now, pending, registered>>

\* afterAgentInputComplete(agent, message): the service is looked up, and if
\* the agent has it the checkpoint is saved under the message and awaited.
\* storage is whether getServiceByType finds the service.
afterAgentInputComplete(message, storage, ok) ==
  LET r == saveAgentCheckpointAwaited(items, activeItemName, checkpoints, nextId, agent, now, message, ok) IN
  /\ pending = EmptyBag
  /\ nextId <= MaxCheckpoints
  /\ IF storage
       THEN /\ checkpoints' = r.checkpoints
            /\ nextId' = r.nextId
            /\ saved' = IF r.id # 0
                          THEN Append(saved, [provider |-> r.provider, name |-> message,
                                              s |-> AgentStateOf(agent), at |-> now])
                          ELSE saved
            /\ lastCall' = [Step("afterAgentInputComplete",
                                  IF r.error = "none" THEN "returned" ELSE "threw", r.error)
                              EXCEPT !.raised = r.raised, !.name = message, !.id = r.id,
                                     !.invoked = TRUE]
       ELSE /\ lastCall' = [Step("afterAgentInputComplete", "returned", "none")
                              EXCEPT !.name = message]
            /\ UNCHANGED <<checkpoints, nextId, saved>>
  /\ UNCHANGED <<items, activeItemName, agent, now, pending, registered>>

\* ------------------------------------------------------------- package start

\* start that, when the default provider is not registered, activates one
\* that is.
startFallsBack(defaultProvider) ==
  LET r == setEnabledItem(items, activeItemName, defaultProvider)
      names == getAllItemNames(items) IN
  /\ activeItemName' = IF r.error # "none" /\ names # {}
                         THEN CHOOSE n \in names : TRUE
                         ELSE r.activeItemName
  /\ lastCall' = [Step("start", IF r.error = "none" THEN "returned" ELSE "threw", r.error)
                    EXCEPT !.name = defaultProvider]
  /\ UNCHANGED <<items, checkpoints, nextId, agent, now, pending, saved, registered>>

\* start(agentTeam): setActiveProviderName(config.defaultProvider)
start(defaultProvider) ==
  LET r == setEnabledItem(items, activeItemName, defaultProvider) IN
  /\ activeItemName' = r.activeItemName
  /\ lastCall' = [Step("start", IF r.error = "none" THEN "returned" ELSE "threw", r.error)
                    EXCEPT !.name = defaultProvider]
  /\ UNCHANGED <<items, checkpoints, nextId, agent, now, pending, saved, registered>>

\* --------------------------------------------------------- commands/checkpoint

\* No argument after the action, and no selection made (askHuman's falsy answer).
NoId == 0

\* The values of the selection tree's leaves: the ids of the checkpoints listed.
treeValues(list) == {list[i].id : i \in 1..Len(list)}

\* /checkpoint create [label]
checkpointExecuteCreate(label, ok) ==
  LET name == IF label = "" THEN "New Checkpoint" ELSE label
      r == saveAgentCheckpointAwaited(items, activeItemName, checkpoints, nextId, agent, now, name, ok) IN
  /\ pending = EmptyBag
  /\ nextId <= MaxCheckpoints
  /\ checkpoints' = r.checkpoints
  /\ nextId' = r.nextId
  /\ saved' = IF r.id # 0
                THEN Append(saved, [provider |-> r.provider, name |-> name,
                                    s |-> AgentStateOf(agent), at |-> now])
                ELSE saved
  /\ lastCall' = [Step("/checkpoint", IF r.error = "none" THEN "returned" ELSE "threw", r.error)
                    EXCEPT !.raised = r.raised, !.name = "create", !.id = r.id,
                           !.lines = IF r.error = "none" THEN <<"infoLine: Checkpoint created">> ELSE <<>>]
  /\ UNCHANGED <<items, activeItemName, agent, now, pending, registered>>

\* /checkpoint restore that, given no id, restores the checkpoint stored last.
checkpointExecuteRestoreLatest(arg, ok) ==
  LET id == IF arg = NoId THEN nextId - 1 ELSE arg
      r == restoreAgentCheckpointAwaited(items, activeItemName, checkpoints, agent, id, ok) IN
  /\ pending = EmptyBag
  /\ agent' = r.agent
  /\ lastCall' = [Step("/checkpoint", IF r.error = "none" THEN "returned" ELSE "threw", r.error)
                    EXCEPT !.raised = r.raised, !.name = "restore", !.id = arg,
                           !.invoked = TRUE, !.replaced = r.replaced,
                           !.lines = IF r.error = "none"
                                       THEN <<"infoLine: Checkpoint loaded">> ELSE <<>>]
  /\ UNCHANGED <<items, activeItemName, checkpoints, nextId, now, pending, saved, registered>>

\* /checkpoint restore [id]
checkpointExecuteRestore(arg, ok) ==
  LET r == restoreAgentCheckpointAwaited(items, activeItemName, checkpoints, agent, arg, ok) IN
  /\ pending = EmptyBag
  /\ IF arg = NoId
       THEN /\ lastCall' = [Step("/checkpoint", "returned", "none")
                              EXCEPT !.name = "restore", !.id = arg,
                                     !.lines = <<"errorLine: Usage">>]
            /\ UNCHANGED agent
       ELSE /\ agent' = r.agent
            /\ lastCall' = [Step("/checkpoint", IF r.error = "none" THEN "returned" ELSE "threw", r.error)
                              EXCEPT !.raised = r.raised, !.name = "restore", !.id = arg,
                                     !.invoked = TRUE, !.replaced = r.replaced,
                                     !.lines = IF r.error = "none"
                                                 THEN <<"infoLine: Checkpoint loaded">> ELSE <<>>]
  /\ UNCHANGED <<items, activeItemName, checkpoints, nextId, now, pending, saved, registered>>

\* /checkpoint list (and every other action), to the selection put to the user
checkpointExecuteList(ok) ==
  LET r == listCheckpointsAwaited(items, activeItemName, checkpoints, ok) IN
  /\ pending = EmptyBag
  /\ IF r.error # "none"
       THEN /\ lastCall' = [Step("/checkpoint", "threw", r.error)
                              EXCEPT !.raised = r.raised, !.name = "list"]
            /\ UNCHANGED pending
       ELSE IF Len(r.items) = 0
         THEN /\ lastCall' = [Step("/checkpoint", "returned", "none")
                                EXCEPT !.name = "list",
                                       !.lines = <<"infoLine: No checkpoints saved">>]
              /\ UNCHANGED pending
         ELSE /\ lastCall' = [Step("/checkpoint", "suspended", "none")
                                EXCEPT !.name = "list", !.items = r.items]
              /\ pending' = pending (+) SetToBag({Call("askHuman", NoItem, "/checkpoint", NoId,
                                                       treeValues(r.items), Null, 0)})
  /\ UNCHANGED <<items, activeItemName, checkpoints, nextId, agent, now, saved, registered>>

\* /checkpoint list, resumed with the user's answer: a leaf of the tree, or none
checkpointExecuteSelected(c, selectedId, ok) ==
  LET r == restoreAgentCheckpointAwaited(items, activeItemName, checkpoints, agent, selectedId, ok) IN
  /\ c.op = "askHuman"
  /\ c.name = "/checkpoint"
  /\ BagIn(c, pending)
  /\ selectedId \in c.data \cup {NoId}
  /\ pending' = pending (-) SetToBag({c})
  /\ IF selectedId = NoId
       THEN /\ lastCall' = [Step("/checkpoint", "returned", "none")
                              EXCEPT !.name = "list", !.id = selectedId,
                                     !.lines = <<"infoLine: Checkpoint selection cancelled">>]
            /\ UNCHANGED agent
       ELSE /\ agent' = r.agent
            /\ lastCall' = [Step("/checkpoint", "returned", "none")
                              EXCEPT !.raised = r.raised, !.name = "list", !.id = selectedId,
                                     !.invoked = TRUE, !.replaced = r.replaced,
                                     !.lines = IF r.error = "none"
                                                 THEN <<"infoLine: Checkpoint loaded">>
                                                 ELSE <<"errorLine: Error during checkpoint selection">>]
  /\ UNCHANGED <<items, activeItemName, checkpoints, nextId, now, saved, registered>>

\* ------------------------------------------------------------ commands/history

\* displayCheckpointDetails: the item's lines, then the full checkpoint fetched
\* from the active provider inside try/catch, and the lines of either outcome.
displayCheckpointDetails(its, active, stores, id, ok) ==
  LET p == getActiveItem(its, active)
      full == IF p.error = "none" THEN retrieveCheckpoint(stores[p.item], id) ELSE Null IN
  IF p.error # "none" \/ ~ok
    THEN [raised |-> IF p.error # "none" THEN p.error ELSE "StorageError",
          full |-> Null,
          lines |-> <<"infoLine: Checkpoint", "errorLine: Error loading checkpoint",
                      "infoLine: Checkpoint Information", "infoLine: End of Checkpoint Details">>]
    ELSE [raised |-> "none",
          full |-> full,
          lines |-> IF full # Null
                      THEN <<"infoLine: Checkpoint", "infoLine: Checkpoint State",
                             "infoLine: End of Checkpoint Details">>
                      ELSE <<"infoLine: Checkpoint", "infoLine: End of Checkpoint Details">>]

\* /history, to the selection put to the user
historyExecute(ok) ==
  LET r == listCheckpointsAwaited(items, activeItemName, checkpoints, ok) IN
  /\ pending = EmptyBag
  /\ IF r.error # "none"
       THEN /\ lastCall' = [Step("/history", "threw", r.error) EXCEPT !.raised = r.raised]
            /\ UNCHANGED pending
       ELSE IF Len(r.items) = 0
         THEN /\ lastCall' = [Step("/history", "returned", "none")
                                EXCEPT !.lines = <<"infoLine: No checkpoint history found">>]
              /\ UNCHANGED pending
         ELSE /\ lastCall' = [Step("/history", "suspended", "none") EXCEPT !.items = r.items]
              /\ pending' = pending (+) SetToBag({Call("askHuman", NoItem, "/history", NoId,
                                                       treeValues(r.items), Null, 0)})
  /\ UNCHANGED <<items, activeItemName, checkpoints, nextId, agent, now, saved, registered>>

\* /history that puts the checkpoint it displays into the agent.
historyExecuteSelectedRestores(c, selectedId, ok) ==
  LET d == displayCheckpointDetails(items, activeItemName, checkpoints, selectedId, ok) IN
  /\ c.op = "askHuman"
  /\ c.name = "/history"
  /\ BagIn(c, pending)
  /\ selectedId \in c.data \cup {NoId}
  /\ pending' = pending (-) SetToBag({c})
  /\ lastCall' = [Step("/history", "returned", "none")
                    EXCEPT !.id = selectedId,
                           !.raised = IF selectedId = NoId THEN "none" ELSE d.raised,
                           !.lines = IF selectedId = NoId
                                       THEN <<"infoLine: Checkpoint browsing cancelled">>
                                       ELSE d.lines]
  /\ agent' = IF selectedId # NoId /\ d.full # Null THEN restoreCheckpoint(agent, d.full) ELSE agent
  /\ UNCHANGED <<items, activeItemName, checkpoints, nextId, now, saved, registered>>

\* /history, resumed with the user's answer: the details of the checkpoint
\* selected are displayed, or the browsing is cancelled.
historyExecuteSelected(c, selectedId, ok) ==
  LET d == displayCheckpointDetails(items, activeItemName, checkpoints, selectedId, ok) IN
  /\ c.op = "askHuman"
  /\ c.name = "/history"
  /\ BagIn(c, pending)
  /\ selectedId \in c.data \cup {NoId}
  /\ pending' = pending (-) SetToBag({c})
  /\ lastCall' = [Step("/history", "returned", "none")
                    EXCEPT !.id = selectedId,
                           !.raised = IF selectedId = NoId THEN "none" ELSE d.raised,
                           !.lines = IF selectedId = NoId
                                       THEN <<"infoLine: Checkpoint browsing cancelled">>
                                       ELSE d.lines]
  /\ UNCHANGED agent
  /\ UNCHANGED <<items, activeItemName, checkpoints, nextId, now, saved, registered>>

\* The package in its host: providers are registered, the package is started,
\* the agent handles its input and the hook runs, one at a time.
NextHost ==
  \/ \E reg \in Registrations : registerProvider(reg[1], reg[2])
  \/ \E n \in ProviderNames : setActiveProviderName(n)
  \/ \E n \in ProviderNames : start(n)
  \/ HandleInput
  \/ \E m \in CheckpointNames : \E storage, ok \in BOOLEAN : afterAgentInputComplete(m, storage, ok)

SpecHost == Init /\ [][NextHost]_vars

\* The user's /checkpoint commands, executed one at a time on an agent that
\* handles its input; while a command waits for the user's selection the
\* registry can change and the agent can go on.
NextCheckpoint ==
  \/ \E reg \in OverlapRegistrations : registerProvider(reg[1], reg[2])
  \/ \E n \in ProviderNames : setActiveProviderName(n)
  \/ HandleInput
  \/ \E label \in {"", "after"} : \E ok \in BOOLEAN : checkpointExecuteCreate(label, ok)
  \/ \E arg \in Ids \cup {NoId} : \E ok \in BOOLEAN : checkpointExecuteRestore(arg, ok)
  \/ \E ok \in BOOLEAN : checkpointExecuteList(ok)
  \/ \E c \in BagToSet(pending) : \E selectedId \in Ids \cup {NoId} : \E ok \in BOOLEAN :
       checkpointExecuteSelected(c, selectedId, ok)

SpecCheckpoint == Init /\ [][NextCheckpoint]_vars

\* The user's /history commands, on an agent whose checkpoints are created by
\* /checkpoint create.
NextHistory ==
  \/ \E reg \in OverlapRegistrations : registerProvider(reg[1], reg[2])
  \/ \E n \in ProviderNames : setActiveProviderName(n)
  \/ HandleInput
  \/ \E ok \in BOOLEAN : checkpointExecuteCreate("after", ok)
  \/ \E ok \in BOOLEAN : historyExecute(ok)
  \/ \E c \in BagToSet(pending) : \E selectedId \in Ids \cup {NoId} : \E ok \in BOOLEAN :
       historyExecuteSelected(c, selectedId, ok)

SpecHistory == Init /\ [][NextHistory]_vars

\* The service under callers that overlap their calls, with one provider
\* registered under each name, one checkpoint name, and restores of the first id.
NextOverlap ==
  \/ \E reg \in OverlapRegistrations : registerProvider(reg[1], reg[2])
  \/ \E n \in ProviderNames : setActiveProviderName(n)
  \/ CanOverlap /\ saveAgentCheckpoint("after")
  \/ \E c \in BagToSet(pending) : saveAgentCheckpointResume(c)
  \/ CanOverlap /\ restoreAgentCheckpoint(1)
  \/ \E c \in BagToSet(pending) : restoreAgentCheckpointResume(c)
  \/ CanOverlap /\ listCheckpoints
  \/ \E c \in BagToSet(pending) : listCheckpointsResume(c)
  \/ HandleInput

SpecOverlap == Init /\ [][NextOverlap]_vars

\* ------------------------------------------------------------- the claims

ServiceOps == {"saveAgentCheckpoint", "restoreAgentCheckpoint", "listCheckpoints"}

\* Call c was suspended and this step resumes it.
Resumed(c) == CopiesIn(c, pending') < CopiesIn(c, pending)

\* In this step the backend answered call c (it did not fail).
Answered(c) == Resumed(c) /\ lastCall'.raised = "none"

\* C1: when the provider a restore was issued to answers with no record for the
\* id, the restore fails with CheckpointNotFoundError, the agent's
\* restoreCheckpoint is not invoked and the agent's state is what it was.
C1_RestoreMissingFails ==
  [][\A c \in BagToSet(pending) :
       (/\ c.op = "restoreAgentCheckpoint"
        /\ Answered(c)
        /\ retrieveCheckpoint(checkpoints[c.provider], c.id) = Null)
       => /\ lastCall'.op = "restoreAgentCheckpoint"
          /\ lastCall'.phase = "threw"
          /\ lastCall'.error = "CheckpointNotFoundError"
          /\ ~lastCall'.replaced
          /\ agent' = agent]_vars

\* A restore has just failed for an id the active provider does not hold (another
\* provider does), on an agent that has moved on from its initial state.
C1_Witness ==
  /\ lastCall.op = "restoreAgentCheckpoint"
  /\ lastCall.error = "CheckpointNotFoundError"
  /\ agent.chatMessages # <<>>
  /\ \E p \in Providers : \E i \in 1..Len(checkpoints[p]) : checkpoints[p][i].id = lastCall.id

\* The save call that was answered with id, if it went to provider p.
SavedIn(p, id) == id \in 1..Len(saved) /\ saved[id].provider = p

\* C2: a restore of an id that a save returned under the same provider succeeds,
\* and a state capture taken right after it yields exactly the state the agent
\* had when that save was called, whatever the agent's state was before.
C2_RestoreReproducesSaved ==
  [][\A c \in BagToSet(pending) :
       (/\ c.op = "restoreAgentCheckpoint"
        /\ Answered(c)
        /\ SavedIn(c.provider, c.id))
       => /\ lastCall'.op = "restoreAgentCheckpoint"
          /\ lastCall'.phase = "returned"
          /\ lastCall'.replaced
          /\ generateCheckpoint(agent', now').state = saved[c.id].s]_vars

\* A restore has just returned on an agent that had handled an input since the
\* save: the agent is back in the saved state, conversation empty again.
C2_Witness ==
  /\ lastCall.op = "restoreAgentCheckpoint"
  /\ lastCall.phase = "returned"
  /\ now = 1
  /\ lastCall.id \in 1..Len(saved)
  /\ saved[lastCall.id].s.chatMessages = <<>>
  /\ saved[lastCall.id].at = 0
  /\ AgentStateOf(agent) = saved[lastCall.id].s

\* What retrieveCheckpoint answers for every id a save has returned: a record
\* with the name and the state fields the save was called with.
RoundTrip ==
  \A id \in 1..Len(saved) :
    LET r == retrieveCheckpoint(checkpoints[saved[id].provider], id) IN
    /\ r # Null
    /\ r.id = id
    /\ r.name = saved[id].name
    /\ r.state = saved[id].s

\* C3: at all times the provider a save went to answers retrieveCheckpoint(id),
\* for the id the save returned, with a record of the save's name and state;
\* and a step in which a provider answers a retrieve changes no provider's
\* stored records, so that every later retrieve answers the same.
C3_StorageRoundTrip ==
  /\ []RoundTrip
  /\ [][\A c \in BagToSet(pending) :
          (c.op = "restoreAgentCheckpoint" /\ Resumed(c)) => checkpoints' = checkpoints]_vars

\* Two saves with different names and states have returned, and the second id
\* has since been retrieved by a restore.
C3_Witness ==
  /\ Len(saved) = 2
  /\ saved[1].name # saved[2].name
  /\ saved[1].s # saved[2].s
  /\ lastCall.op = "restoreAgentCheckpoint"
  /\ lastCall.phase = "returned"
  /\ lastCall.id = 2
  /\ RoundTrip

\* C4: restoring the id of an earlier save, after the agent has changed and
\* later saves have been stored, sets the agent's tools, hooks, custom state,
\* messages and response pointer to what they were at that earlier save.
C4_RestoreEarlierSave ==
  [][\A c \in BagToSet(pending) :
       (/\ c.op = "restoreAgentCheckpoint"
        /\ Answered(c)
        /\ SavedIn(c.provider, c.id)
        /\ \E later \in (c.id + 1)..Len(saved) : saved[later].provider = c.provider)
       => /\ agent'.toolsEnabled = saved[c.id].s.toolsEnabled
          /\ agent'.hooksEnabled = saved[c.id].s.hooksEnabled
          /\ agent'.agentState = saved[c.id].s.agentState
          /\ agent'.chatMessages = saved[c.id].s.chatMessages
          /\ agent'.responseId = saved[c.id].s.responseId]_vars

\* The README's workflow: "before" saved with tools {A, B}, the tools changed to
\* {C}, "after" saved to the same provider, which now lists two checkpoints, and
\* "before" restored: the tools are {A, B} again.
C4_Witness ==
  /\ Len(saved) = 2
  /\ saved[1].name = "before" /\ saved[1].s.toolsEnabled = {"A", "B"}
  /\ saved[2].name = "after" /\ saved[2].s.toolsEnabled = {"C"}
  /\ saved[1].provider = saved[2].provider
  /\ Len(providerListCheckpoints(checkpoints[saved[1].provider])) = 2
  /\ lastCall.op = "restoreAgentCheckpoint"
  /\ lastCall.phase = "returned"
  /\ lastCall.id = 1
  /\ agent.toolsEnabled = {"A", "B"}

\* This step is the synchronous part of a service call: no suspended call is resumed.
Invocation ==
  /\ lastCall'.op \in ServiceOps
  /\ \A c \in BagToSet(pending) : ~Resumed(c)

\* C5: with no provider active, a save, a restore and a list each fail with
\* NoActiveProviderError; in the failing call no provider method is invoked,
\* the agent's state is neither captured nor replaced, nothing is stored and
\* no call is left suspended.
C5_NoActiveProviderFails ==
  [][(getActiveItemName(activeItemName) = NoName /\ Invocation)
       => /\ lastCall'.phase = "threw"
          /\ lastCall'.error = "NoActiveProviderError"
          /\ ~lastCall'.invoked
          /\ ~lastCall'.captured
          /\ ~lastCall'.replaced
          /\ UNCHANGED <<checkpoints, nextId, saved, agent, pending, items, activeItemName>>]_vars

\* A save has just failed for lack of an active provider although providers are
\* registered and the agent has state worth saving.
C5_Witness ==
  /\ lastCall.op = "saveAgentCheckpoint"
  /\ lastCall.error = "NoActiveProviderError"
  /\ getActiveItemName(activeItemName) = NoName
  /\ getAllItemNames(items) = ProviderNames
  /\ agent.chatMessages # <<>>

\* C6: one name at most is the active one, and a setActiveProviderName(B) for a
\* registered B, whatever was selected before it, leaves B the active name and
\* the provider registered under B the active provider.
C6_SingleSelection ==
  [][(lastCall'.op = "setActiveProviderName" /\ items[lastCall'.name] # NoItem)
       => /\ lastCall'.phase = "returned"
          /\ \A n \in ProviderNames : (getActiveItemName(activeItemName') = n) <=> (n = lastCall'.name)
          /\ getActiveItem(items', activeItemName') =
               [error |-> "none", item |-> items'[lastCall'.name]]]_vars

\* "memory" was selected (its provider p1 holds a checkpoint) and then
\* "database" was: "database" is the active name, p2 the active provider.
C6_Witness ==
  /\ lastCall.op = "setActiveProviderName"
  /\ lastCall.phase = "returned"
  /\ lastCall.name = "database"
  /\ Len(checkpoints["p1"]) > 0
  /\ items["memory"] = "p1"
  /\ getActiveItemName(activeItemName) = "database"
  /\ getActiveItem(items, activeItemName).item = "p2"

\* C7: setActiveProviderName for a name that was never registered fails with
\* ProviderNotFoundError and leaves the active name, "none" included, as it was.
C7_UnregisteredNameFails ==
  [][(lastCall'.op = "setActiveProviderName" /\ lastCall'.name \notin registered)
       => /\ lastCall'.phase = "threw"
          /\ lastCall'.error = "ProviderNotFoundError"
          /\ getActiveItemName(activeItemName') = getActiveItemName(activeItemName)
          /\ items' = items]_vars

\* "memory" is active and setActiveProviderName("database") has just failed,
\* "database" not being registered: "memory" is still active.
C7_Witness ==
  /\ lastCall.op = "setActiveProviderName"
  /\ lastCall.phase = "threw"
  /\ lastCall.name = "database"
  /\ "database" \notin registered
  /\ getActiveItemName(activeItemName) = "memory"

\* C8: registerProvider returns also for a name that is registered already, the
\* name then maps to the provider of this last call, the other names map to
\* what they did, and the active name is what it was before the call.
C8_RegisterKeepsSelection ==
  [][lastCall'.op = "registerProvider"
       => /\ lastCall'.phase = "returned"
          /\ items'[lastCall'.name] = lastCall'.provider
          /\ \A n \in ProviderNames \ {lastCall'.name} : items'[n] = items[n]
          /\ getActiveItemName(activeItemName') = getActiveItemName(activeItemName)]_vars

\* "memory" was registered with p1 and selected (p1 holds a checkpoint) and has
\* just been registered again, with p2: it maps to p2 and is still the active name.
C8_Witness ==
  /\ lastCall.op = "registerProvider"
  /\ lastCall.name = "memory"
  /\ lastCall.provider = "p2"
  /\ Len(checkpoints["p1"]) > 0
  /\ items["memory"] = "p2"
  /\ getActiveItemName(activeItemName) = "memory"

\* C9: getAvailableProviders() is the set of the names registerProvider has
\* been called with: empty at construction, and no operation removes a name.
C9_AvailableProviders == getAllItemNames(items) = registered

\* Both names are registered, checkpoints have been saved and restored, and
\* both names are available still.
C9_Witness ==
  /\ registered = ProviderNames
  /\ getAllItemNames(items) = ProviderNames
  /\ Len(saved) = MaxCheckpoints
  /\ lastCall.op = "restoreAgentCheckpoint"
  /\ lastCall.phase = "returned"

\* C10: a list that returns has, for every save that returned before it under
\* the provider the list was issued to, an item with that save's id, name,
\* agent id and creation time; and every item has these four fields and no state.
C10_ListReflectsStored ==
  [][\A c \in BagToSet(pending) :
       (c.op = "listCheckpoints" /\ Answered(c))
       => /\ lastCall'.op = "listCheckpoints"
          /\ lastCall'.phase = "returned"
          /\ \A id \in 1..Len(saved) :
               saved[id].provider = c.provider
               => \E i \in 1..Len(lastCall'.items) :
                    /\ lastCall'.items[i].id = id
                    /\ lastCall'.items[i].name = saved[id].name
                    /\ lastCall'.items[i].agentId = AgentId
                    /\ lastCall'.items[i].createdAt = saved[id].at
          /\ \A i \in 1..Len(lastCall'.items) :
               DOMAIN lastCall'.items[i] = {"id", "name", "agentId", "createdAt"}]_vars

\* A list has just returned two items, for two checkpoints of different names
\* created at different times.
C10_Witness ==
  /\ lastCall.op = "listCheckpoints"
  /\ lastCall.phase = "returned"
  /\ Len(lastCall.items) = 2
  /\ lastCall.items[1].name # lastCall.items[2].name
  /\ lastCall.items[1].createdAt # lastCall.items[2].createdAt

\* C11: a record a provider resolves an id to is resolved by it, unchanged,
\* after every step: no save, restore, list, registerProvider or
\* setActiveProviderName modifies a stored checkpoint or removes it.
C11_StoredIsImmutable ==
  [][\A p \in Providers : \A id \in Ids :
       LET r == retrieveCheckpoint(checkpoints[p], id) IN
       r # Null => retrieveCheckpoint(checkpoints'[p], id) = r]_vars

\* A provider holds two checkpoints, and the first has just been read by a
\* restore, after the second was stored next to it.
C11_Witness ==
  /\ \E p \in Providers :
       /\ Len(checkpoints[p]) = 2
       /\ retrieveCheckpoint(checkpoints[p], 1) # Null
       /\ retrieveCheckpoint(checkpoints[p], 2) # Null
  /\ lastCall.op = "restoreAgentCheckpoint"
  /\ lastCall.id = 1
  /\ lastCall.replaced

\* C12: when the storage backend fails a suspended save, restore or list, the
\* call fails with the backend's error as it was raised; the call is gone from
\* the backend and none is issued in its place, to this provider or another,
\* and nothing is stored and the agent is not touched.
C12_StorageFailurePropagates ==
  [][\A c \in BagToSet(pending) :
       (Resumed(c) /\ lastCall'.raised # "none")
       => /\ lastCall'.op = c.op
          /\ lastCall'.phase = "threw"
          /\ lastCall'.error = lastCall'.raised
          /\ pending' = pending (-) SetToBag({c})
          /\ checkpoints' = checkpoints
          /\ nextId' = nextId
          /\ agent' = agent]_vars

\* The backend of the active provider has just failed a save, while a second
\* provider is registered that the save could have fallen back to.
C12_Witness ==
  /\ lastCall.op = "saveAgentCheckpoint"
  /\ lastCall.phase = "threw"
  /\ lastCall.raised = "StorageError"
  /\ lastCall.error = "StorageError"
  /\ getAllItemNames(items) = ProviderNames
  /\ items["memory"] # items["database"]
  /\ pending = EmptyBag
  /\ \A p \in Providers : checkpoints[p] = <<>>

\* C13: with calls overlapping, a step of saveAgentCheckpoint,
\* restoreAgentCheckpoint or listCheckpoints (the call being made, or a suspended
\* call being resumed) leaves the registry's items, names and selection as they
\* are, and a step that changes any of them is one registerProvider or one
\* setActiveProviderName.
C13_RegistryChangedOnlyByRegistryOps ==
  [][/\ (lastCall'.op \in ServiceOps \/ \E c \in BagToSet(pending) : Resumed(c))
        => /\ items' = items
           /\ activeItemName' = activeItemName
           /\ getAllItemNames(items') = getAllItemNames(items)
     /\ (items' # items \/ activeItemName' # activeItemName)
        => /\ lastCall'.op \in {"registerProvider", "setActiveProviderName"}
           /\ pending' = pending]_vars

\* Two calls are suspended on the backend, and a setActiveProviderName has just
\* moved the selection away from the provider one of them was issued to.
C13_Witness ==
  /\ BagCardinality(pending) = 2
  /\ lastCall.op = "setActiveProviderName"
  /\ lastCall.error = "none"
  /\ \E c \in BagToSet(pending) : c.provider # items[activeItemName]
  /\ \E c \in BagToSet(pending) : c.op = "saveAgentCheckpoint"

\* C20: the record a save stores carries the state the agent had, and the time
\* it was, when the save was called, whatever an input or an overlapping
\* restore has made of the agent while the save was suspended.
C20_CaptureAtInvocation ==
  [][\A c \in BagToSet(pending) :
       (c.op = "saveAgentCheckpoint" /\ Answered(c))
       => LET r == retrieveCheckpoint(checkpoints'[c.provider], lastCall'.id) IN
          /\ r # Null
          /\ r.name = c.name
          /\ r.state = c.s
          /\ r.createdAt = c.at]_vars

\* A save called after the agent's input has just returned, and the agent is
\* back at its empty conversation: a restore went through while the save was
\* suspended, and the stored record has the state of the call.
C20_Witness ==
  /\ lastCall.op = "saveAgentCheckpoint"
  /\ lastCall.phase = "returned"
  /\ lastCall.id = Len(saved)
  /\ saved[lastCall.id].s.chatMessages # <<>>
  /\ agent.chatMessages = <<>>
  /\ retrieveCheckpoint(checkpoints[saved[lastCall.id].provider], lastCall.id).state
       = saved[lastCall.id].s

\* The records of stores `after` that are not in `before`.
StoredBy(before, after) ==
  {x \in UNION {{after[p][i] : i \in 1..Len(after[p])} : p \in Providers} :
     \A p \in Providers : \A i \in 1..Len(before[p]) : before[p][i] # x}

\* C14: a run of the autoCheckpoint hook on an agent that has the service, with
\* a provider active and a backend that stores, adds exactly one checkpoint, to
\* the active provider, named exactly the message and carrying the agent's
\* state as it is; a run that ends in an error, or on an agent without the
\* service, stores nothing.
C14_HookSavesOneNamedMessage ==
  [][lastCall'.op = "afterAgentInputComplete"
       => IF lastCall'.invoked /\ lastCall'.error = "none"
            THEN /\ \E x \in StoredBy(checkpoints, checkpoints') :
                      /\ StoredBy(checkpoints, checkpoints') = {x}
                      /\ x.name = lastCall'.name
                      /\ x.state = AgentStateOf(agent)
                      /\ x.id = lastCall'.id
                      /\ retrieveCheckpoint(checkpoints'[items[activeItemName]], x.id) = x
                 /\ \A p \in Providers :
                      Len(checkpoints'[p]) = Len(checkpoints[p])
                        + (IF p = items[activeItemName] THEN 1 ELSE 0)
            ELSE checkpoints' = checkpoints]_vars

\* The hook has just returned after the agent's input: the active provider
\* holds a checkpoint named the message with the conversation of that input.
C14_Witness ==
  /\ lastCall.op = "afterAgentInputComplete"
  /\ lastCall.phase = "returned"
  /\ lastCall.invoked
  /\ lastCall.name = "before"
  /\ agent.chatMessages = <<"before">>
  /\ LET r == retrieveCheckpoint(checkpoints[items[activeItemName]], lastCall.id) IN
     /\ r # Null
     /\ r.name = "before"
     /\ r.state = AgentStateOf(agent)

\* C15: the autoCheckpoint hook never ends in an error: whatever the registry
\* holds, whichever provider is active or none, and whatever the backend
\* answers, afterAgentInputComplete returns.
C15_HookNeverRaises ==
  lastCall.op = "afterAgentInputComplete" => lastCall.phase = "returned" /\ lastCall.error = "none"

\* C16: start with a default provider that is registered returns, and that name
\* is then the active one; with a default provider that is not registered it
\* fails with ProviderNotFoundError and leaves the registry and the selection
\* as they were, so that, nothing having been selected before, a save, a
\* restore and a list made next each fail with NoActiveProviderError.
C16_StartActivatesDefaultOrFails ==
  [][lastCall'.op = "start"
       => IF lastCall'.name \in getAllItemNames(items)
            THEN /\ lastCall'.phase = "returned"
                 /\ getActiveItemName(activeItemName') = lastCall'.name
            ELSE /\ lastCall'.phase = "threw"
                 /\ lastCall'.error = "ProviderNotFoundError"
                 /\ items' = items
                 /\ activeItemName' = activeItemName
                 /\ activeItemName = NoName
                    => /\ saveRequest(items', activeItemName', agent', now', "after").error
                            = "NoActiveProviderError"
                       /\ restoreRequest(items', activeItemName', 1).error
                            = "NoActiveProviderError"
                       /\ listRequest(items', activeItemName').error
                            = "NoActiveProviderError"]_vars

\* start has just failed for "database", which is not registered, while
\* "memory" is: no provider is active.
C16_Witness ==
  /\ lastCall.op = "start"
  /\ lastCall.phase = "threw"
  /\ lastCall.name = "database"
  /\ items["database"] = NoItem
  /\ items["memory"] # NoItem
  /\ activeItemName = NoName

\* A line of the kind among the lines the command has put out.
HasLine(lines, line) == \E i \in 1..Len(lines) : lines[i] = line

\* C17: a /checkpoint command that calls restoreAgentCheckpoint, by
\* `restore <id>` or by a selection from the list, with an id the active
\* provider answers with no record for, completes normally, with an error line
\* and without the line that the checkpoint was loaded.
C17_CommandReportsNotFound ==
  [][(/\ lastCall'.op = "/checkpoint"
      /\ lastCall'.invoked
      /\ lastCall'.raised = "none"
      /\ activeItemName # NoName
      /\ retrieveCheckpoint(checkpoints[items[activeItemName]], lastCall'.id) = Null)
     => /\ lastCall'.phase = "returned"
        /\ \E i \in 1..Len(lastCall'.lines) :
             lastCall'.lines[i] \in {"errorLine: Error during checkpoint selection",
                                     "errorLine: Checkpoint not found"}
        /\ ~HasLine(lastCall'.lines, "infoLine: Checkpoint loaded")
        /\ agent' = agent]_vars

\* C18: `/checkpoint restore` with no id puts out the usage error; list mode
\* with nothing stored, and list mode with the selection cancelled, put out
\* their notice; each returns without calling restoreAgentCheckpoint, with the
\* agent's state and the stored checkpoints as they were. A /checkpoint command
\* that does call it passes the id the user gave or selected.
C18_RestoreOnlyWithUserId ==
  [][lastCall'.op = "/checkpoint"
     => /\ (lastCall'.name = "restore" /\ lastCall'.id = NoId)
           => /\ lastCall'.phase = "returned"
              /\ lastCall'.lines = <<"errorLine: Usage">>
              /\ ~lastCall'.invoked /\ ~lastCall'.replaced
              /\ agent' = agent /\ checkpoints' = checkpoints /\ nextId' = nextId
        /\ (/\ lastCall'.name = "list"
            /\ pending = EmptyBag
            /\ lastCall'.raised = "none"
            /\ activeItemName # NoName
            /\ checkpoints[items[activeItemName]] = <<>>)
           => /\ lastCall'.phase = "returned"
              /\ lastCall'.lines = <<"infoLine: No checkpoints saved">>
              /\ pending' = EmptyBag
              /\ ~lastCall'.invoked /\ ~lastCall'.replaced
              /\ agent' = agent /\ checkpoints' = checkpoints /\ nextId' = nextId
        /\ (/\ lastCall'.name = "list"
            /\ \E c \in BagToSet(pending) : Resumed(c)
            /\ lastCall'.id = NoId)
           => /\ lastCall'.phase = "returned"
              /\ lastCall'.lines = <<"infoLine: Checkpoint selection cancelled">>
              /\ ~lastCall'.invoked /\ ~lastCall'.replaced
              /\ agent' = agent /\ checkpoints' = checkpoints /\ nextId' = nextId
        /\ lastCall'.invoked
           => /\ lastCall'.id # NoId
              /\ \A c \in BagToSet(pending) : Resumed(c) => lastCall'.id \in c.data
              /\ lastCall'.replaced
                 => agent' = restoreCheckpoint(agent,
                      retrieveCheckpoint(checkpoints[items[activeItemName]], lastCall'.id))]_vars

\* `/checkpoint restore` has just put out its usage error, on an agent that
\* has handled its input since a checkpoint was stored in the active provider:
\* a restore would have changed the agent.
C18_Witness ==
  /\ lastCall.op = "/checkpoint"
  /\ lastCall.name = "restore"
  /\ lastCall.id = NoId
  /\ lastCall.lines = <<"errorLine: Usage">>
  /\ activeItemName # NoName
  /\ Len(checkpoints[items[activeItemName]]) > 0
  /\ checkpoints[items[activeItemName]][Len(checkpoints[items[activeItemName]])].state
       # AgentStateOf(agent)

\* C19: every step of the /history command (the listing, whether it fails,
\* finds nothing or puts the selection to the user, and the display of the
\* checkpoint selected, whether the provider answers, answers with nothing or
\* fails) leaves the agent, the stored checkpoints, the registry and the
\* selection as they were, and does not invoke the agent's restoreCheckpoint.
C19_HistoryIsReadOnly ==
  [][lastCall'.op = "/history"
     => /\ agent' = agent
        /\ checkpoints' = checkpoints
        /\ nextId' = nextId
        /\ items' = items
        /\ activeItemName' = activeItemName
        /\ ~lastCall'.replaced
        /\ lastCall'.phase = "threw" => lastCall'.lines = <<>>]_vars

\* /history has just displayed the state of a checkpoint that differs from the
\* state the agent is in.
C19_Witness ==
  /\ lastCall.op = "/history"
  /\ lastCall.phase = "returned"
  /\ lastCall.id # NoId
  /\ HasLine(lastCall.lines, "infoLine: Checkpoint State")
  /\ activeItemName # NoName
  /\ LET full == retrieveCheckpoint(checkpoints[items[activeItemName]], lastCall.id) IN
     /\ full # Null
     /\ full.state # AgentStateOf(agent)

\* C21: a save, restore or list that is suspended was issued to the provider
\* active when it was called, and it is completed against that provider,
\* whatever setActiveProviderName and registerProvider have made of the
\* registry since: the save's record goes into that provider's store and no
\* other, the restore puts into the agent what that provider holds under the
\* id, and the list answers with that provider's checkpoints.
C21_ProviderResolvedAtInvocation ==
  [][/\ \A c \in BagToSet(pending') :
          CopiesIn(c, pending') > CopiesIn(c, pending)
          => /\ activeItemName # NoName
             /\ c.provider = items[activeItemName]
     /\ \A c \in BagToSet(pending) :
          Answered(c)
          => /\ c.op = "saveAgentCheckpoint"
                => /\ retrieveCheckpoint(checkpoints'[c.provider], lastCall'.id) # Null
                   /\ \A p \in Providers \ {c.provider} : checkpoints'[p] = checkpoints[p]
             /\ c.op = "restoreAgentCheckpoint"
                => LET r == retrieveCheckpoint(checkpoints[c.provider], c.id) IN
                   IF r = Null
                     THEN lastCall'.error = "CheckpointNotFoundError" /\ agent' = agent
                     ELSE lastCall'.replaced /\ agent' = restoreCheckpoint(agent, r)
             /\ c.op = "listCheckpoints"
                => lastCall'.items = providerListCheckpoints(checkpoints[c.provider])]_vars

\* A save has just returned and its checkpoint is in the provider it was
\* issued to, which is no longer the active one: the selection or the
\* registration changed while the save was suspended.
C21_Witness ==
  /\ lastCall.op = "saveAgentCheckpoint"
  /\ lastCall.phase = "returned"
  /\ lastCall.id = Len(saved)
  /\ activeItemName # NoName
  /\ saved[lastCall.id].provider # items[activeItemName]
  /\ retrieveCheckpoint(checkpoints[saved[lastCall.id].provider], lastCall.id) # Null
  /\ retrieveCheckpoint(checkpoints[items[activeItemName]], lastCall.id) = Null

\* C22: at all times the active name is absent or one of the available names,
\* and getActiveItem fails with NoActiveProviderError when it is absent and
\* otherwise answers with the provider now registered under it; the name is
\* absent from construction until the first setActiveProviderName (or start)
\* that succeeds, it changes in no other step, and it is never absent again.
C22_ActiveIsAbsentOrAvailable ==
  /\ [](/\ getActiveItemName(activeItemName) = NoName
           \/ getActiveItemName(activeItemName) \in getAllItemNames(items)
        /\ LET p == getActiveItem(items, activeItemName) IN
           IF activeItemName = NoName
             THEN p.error = "NoActiveProviderError"
             ELSE p.error = "none" /\ p.item \in Providers /\ p.item = items[activeItemName])
  /\ [][/\ activeItemName' # activeItemName
           => /\ lastCall'.op \in {"setActiveProviderName", "start"}
              /\ lastCall'.phase = "returned"
              /\ activeItemName' = lastCall'.name
        /\ (lastCall'.op \in {"setActiveProviderName", "start"} /\ lastCall'.phase = "returned")
           => activeItemName' = lastCall'.name /\ activeItemName' # NoName
        /\ activeItemName # NoName => activeItemName' # NoName]_vars

\* The active name has just been registered anew, with another provider than
\* the one that stored a checkpoint under it: getActiveItem answers with the
\* new one.
C22_Witness ==
  /\ activeItemName = "memory"
  /\ lastCall.op = "registerProvider"
  /\ lastCall.name = "memory"
  /\ items["memory"] = "p2"
  /\ checkpoints["p1"] # <<>>
  /\ getActiveItem(items, activeItemName).item = "p2"

====
